---- MODULE Spec2Model ----
(***************************************************************************)
(* The annotation endpoint of posthog/api/annotation.py: the serializer,   *)
(* the view set's queryset pipeline and the post_save receiver, as a state *)
(* machine over the stored Annotation rows.                                *)
(***************************************************************************)
EXTENDS Integers, Sequences, FiniteSets, TLC

VARIABLES db, now, response, events, restoredBy

vars == <<db, now, response, events, restoredBy>>

(* ------------------------------ bounds --------------------------------- *)

\* Rows the store may hold.
MaxAnnotations == 1

(* --------------------------- the environment --------------------------- *)

\* Teams X and Y belong to organization O, team Z to organization P.
Teams == {"X", "Y", "Z"}

OrganizationOf(team) ==
    IF team = "Z" THEN "P" ELSE "O"

\* Authenticated callers with the team they act in (the permission classes
\* admit a request only for a member of the team).
Requesters ==
    { [user |-> "u1", team |-> "X"],
      [user |-> "u1", team |-> "Y"],
      [user |-> "u2", team |-> "Z"] }

\* Values of the after and before parameters: the clock's readings and one
\* value on either side of them.
FilterTimes == 0..(MaxAnnotations + 1)

Ids == 1..MaxAnnotations

NoParams == [k \in {} |-> "none"]

(* ----------------------------- serializer ------------------------------ *)

\* Meta.fields
Fields ==
    { "id", "content", "date_marker", "creation_type", "dashboard_item",
      "insight_short_id", "insight_name", "created_by", "created_at",
      "updated_at", "deleted", "scope" }

\* Meta.read_only_fields
ReadOnlyFields ==
    { "id", "creation_type", "insight_short_id", "insight_name",
      "created_by", "created_at", "updated_at" }

\* Faulty variant: created_by and creation_type left writable.
ValidatedDataKeepingReadOnly(data) ==
    [f \in DOMAIN data \cap ((Fields \ ReadOnlyFields) \cup {"created_by", "creation_type"})
        |-> data[f]]

\* The serializer's validated_data: the declared, writable fields of the input.
ValidatedData(data) ==
    [f \in DOMAIN data \cap (Fields \ ReadOnlyFields) |-> data[f]]

\* Column defaults of a new row for the fields a create may leave out.
DefaultAnnotation ==
    [ content        |-> "none",
      date_marker    |-> 1,
      creation_type  |-> "USR",
      dashboard_item |-> "none",
      created_by     |-> "none",
      created_at     |-> 1,
      deleted        |-> FALSE,
      scope          |-> "project",
      team           |-> "X",
      organization   |-> "O" ]

\* Model.objects.create(**kwargs) / ModelSerializer.update: set the given attributes.
SetAttrs(instance, attrs) ==
    [f \in DOMAIN instance |-> IF f \in DOMAIN attrs THEN attrs[f] ELSE instance[f]]

(* --------------------------- post_save receiver ------------------------ *)

\* Faulty variant: the hook sent without the test on `created`.
annotation_created_hook_on_every_save(instance, pk, created) ==
    <<[kind |-> "hook", name |-> "annotation_created", pk |-> pk, user |-> instance.team]>>
    \o (IF instance.created_by # "none"
        THEN <<[kind |-> "analytics",
                name |-> IF created THEN "annotation created" ELSE "annotation updated",
                pk |-> pk, user |-> instance.created_by]>>
        ELSE <<>>)

\* The events one save raises, in order.
annotation_created(instance, pk, created) ==
    (IF created
     THEN <<[kind |-> "hook", name |-> "annotation_created", pk |-> pk, user |-> instance.team]>>
     ELSE <<>>)
    \o (IF instance.created_by # "none"
        THEN <<[kind |-> "analytics",
                name |-> IF created THEN "annotation created" ELSE "annotation updated",
                pk |-> pk, user |-> instance.created_by]>>
        ELSE <<>>)

(* ------------------------------ view set ------------------------------- *)

\* Faulty variant: the organization branch of the Q dropped.
filter_queryset_by_parents_lookups_team_only(team) ==
    { id \in DOMAIN db : db[id].team = team }

\* Faulty variant: the organization branch without organization_id.
filter_queryset_by_parents_lookups_any_organization(team) ==
    { id \in DOMAIN db : db[id].team = team \/ db[id].scope = "organization" }

\* Rows of the requesting team, and organization-scoped rows of its organization.
filter_queryset_by_parents_lookups(team) ==
    { id \in DOMAIN db :
        \/ db[id].team = team
        \/ db[id].scope = "organization" /\ db[id].organization = OrganizationOf(team) }

\* Faulty variant: __gte and __lte in place of __gt and __lt.
KeyFilterInclusive(key, value, row) ==
    CASE key = "after"           -> row.created_at >= value
      [] key = "before"          -> row.created_at <= value
      [] key = "dashboardItemId" -> row.dashboard_item = value
      [] key = "scope"           -> row.scope = value
      [] OTHER                   -> TRUE

\* One branch of the loop of _filter_request: the filter a key adds.
KeyFilter(key, value, row) ==
    CASE key = "after"           -> row.created_at > value
      [] key = "before"          -> row.created_at < value
      [] key = "dashboardItemId" -> row.dashboard_item = value
      [] key = "scope"           -> row.scope = value
      [] OTHER                   -> TRUE

_filter_request(params, queryset) ==
    { id \in queryset : \A key \in DOMAIN params : KeyFilter(key, params[key], db[id]) }

\* Faulty variant: the filter deleted=False left out.
get_queryset_keeping_deleted(action, team, params) ==
    LET scoped == filter_queryset_by_parents_lookups(team)
    IN  IF action = "list" THEN _filter_request(params, scoped) ELSE scoped

\* Faulty variant: the full update exempted from deleted=False as well.
get_queryset_update_bypasses(action, team, params) ==
    LET scoped   == filter_queryset_by_parents_lookups(team)
        filtered == IF action = "list" THEN _filter_request(params, scoped) ELSE scoped
    IN  IF action \notin {"partial_update", "update"}
        THEN { id \in filtered : ~db[id].deleted }
        ELSE filtered

\* The rows a request of the given action may see (their order is
\* OrderedResults). super().get_queryset() is the view set's queryset scoped
\* by filter_queryset_by_parents_lookups.
get_queryset(action, team, params) ==
    LET scoped   == filter_queryset_by_parents_lookups(team)
        filtered == IF action = "list" THEN _filter_request(params, scoped) ELSE scoped
    IN  IF action # "partial_update"
        THEN { id \in filtered : ~db[id].deleted }
        ELSE filtered

\* The sort keys the store accepts for order_by.
OrderKeys == {"date_marker", "-date_marker", "created_at", "-created_at"}

\* self.request.GET.get("order", "-date_marker")
OrderOf(params) ==
    IF "order" \in DOMAIN params THEN params["order"] ELSE "-date_marker"

\* Whether row a may come before row b under the sort key.
InOrder(order, a, b) ==
    CASE order = "date_marker"  -> a.date_marker <= b.date_marker
      [] order = "-date_marker" -> a.date_marker >= b.date_marker
      [] order = "created_at"   -> a.created_at <= b.created_at
      [] order = "-created_at"  -> a.created_at >= b.created_at

\* The sequences order_by may return for a set of rows: ties in any order.
OrderedResults(ids, order) ==
    { s \in [1..Cardinality(ids) -> ids] :
        /\ \A i, j \in DOMAIN s : i # j => s[i] # s[j]
        /\ \A i, j \in DOMAIN s : i < j => InOrder(order, db[s[i]], db[s[j]]) }

(* ------------------------------- inputs -------------------------------- *)

\* Bodies of create requests that pass validation; the last one also carries
\* read-only fields.
CreateInputs ==
    { [content |-> "a", date_marker |-> 1, scope |-> "project"],
      [content |-> "a", date_marker |-> 1, scope |-> "organization", deleted |-> TRUE],
      [content |-> "b", date_marker |-> 2, scope |-> "organization",
       dashboard_item |-> "i1", created_by |-> "u9", creation_type |-> "GIT",
       insight_name |-> "mine"] }

\* Bodies of update requests that pass validation; the last one also carries
\* read-only fields.
UpdateInputs ==
    { NoParams,
      [deleted |-> TRUE],
      [deleted |-> FALSE],
      [scope |-> "project"],
      [scope |-> "organization", created_by |-> "u9", creation_type |-> "GIT"] }

\* Query strings of list requests.
ListInputs ==
    { NoParams,
      [order |-> "-created_at", foo |-> "bar"],
      [order |-> "nosuchfield"],
      [after |-> 0, before |-> 2],
      [dashboardItemId |-> "i1"],
      [order |-> "date_marker", scope |-> "organization"] }

(* ------------------------------ operations ----------------------------- *)

\* The answer to a request that succeeds, with the request it answers.
Response(action, r, pk, data, status, results) ==
    [action |-> action, user |-> r.user, team |-> r.team, pk |-> pk,
     data |-> data, status |-> status, results |-> results]

\* The answer to a request that fails, with the request line it answers.
ErrorResponse(action, r, pk, status) ==
    [action |-> action, user |-> r.user, team |-> r.team, pk |-> pk,
     data |-> NoParams, status |-> status, results |-> <<>>]

\* A row written outside this endpoint, with no author.
ImportedAnnotation ==
    [DefaultAnnotation EXCEPT !.creation_type = "GIT", !.scope = "organization"]

Init ==
    /\ db \in { <<>>, <<ImportedAnnotation>> }
    /\ now = Len(db) + 1
    /\ response = [action |-> "none", user |-> "none", team |-> "none", pk |-> 0,
                   data |-> NoParams, status |-> 0, results |-> <<>>]
    /\ events = <<>>
    /\ restoredBy = [id \in Ids |-> "none"]

\* GET on the collection.
List(r, params) ==
    LET rows == get_queryset("list", r.team, params)
    IN  /\ IF OrderOf(params) \in OrderKeys
           THEN \E s \in OrderedResults(rows, OrderOf(params)) :
                    response' = Response("list", r, 0, params, 200, s)
           ELSE response' = ErrorResponse("list", r, 0, 500)
        /\ events' = <<>>
        /\ UNCHANGED <<db, now, restoredBy>>

\* AnnotationSerializer.create: the row a create request stores.
SerializerCreate(r, data) ==
    SetAttrs([DefaultAnnotation EXCEPT
                  !.organization = OrganizationOf(r.team),
                  !.team = r.team,
                  !.created_by = r.user,
                  !.created_at = now],
             ValidatedData(data))

\* Faulty variant: team_id not re-stamped.
SerializerUpdateKeepingTeam(instance, r, data) ==
    SetAttrs(instance, ValidatedData(data))

\* Faulty variant: validated_data not applied.
SerializerUpdateStampOnly(instance, r, data) ==
    [instance EXCEPT !.team = r.team]

\* AnnotationSerializer.update: the row an update request leaves.
SerializerUpdate(instance, r, data) ==
    SetAttrs([instance EXCEPT !.team = r.team], ValidatedData(data))

\* POST on the collection, and the save's signal. The clock that stamps
\* created_at ticks once per stored row.
Create(r, data) ==
    LET pk       == Len(db) + 1
        instance == SerializerCreate(r, data)
    IN  /\ Len(db) < MaxAnnotations
        /\ db' = Append(db, instance)
        /\ now' = now + 1
        /\ events' = annotation_created(instance, pk, TRUE)
        /\ response' = Response("create", r, pk, data, 201, <<pk>>)
        /\ UNCHANGED restoredBy

\* History: the team whose update last restored the row (a successful update
\* of a soft-deleted row that supplies deleted=false), until an update
\* supplies deleted=true.
RestoredByAfter(pk, team, before, data) ==
    CASE "deleted" \in DOMAIN data /\ data["deleted"]                    -> "none"
      [] "deleted" \in DOMAIN data /\ ~data["deleted"] /\ before.deleted -> team
      [] OTHER                                                           -> restoredBy[pk]

\* PUT ("update") or PATCH ("partial_update") on one row: get_object over
\* get_queryset, then AnnotationSerializer.update and the save's signal.
Update(action, r, pk, data) ==
    /\ IF pk \in get_queryset(action, r.team, NoParams)
       THEN LET instance == SerializerUpdate(db[pk], r, data)
            IN  /\ db' = [db EXCEPT ![pk] = instance]
                /\ events' = annotation_created(instance, pk, FALSE)
                /\ response' = Response(action, r, pk, data, 200, <<pk>>)
                /\ restoredBy' = [restoredBy EXCEPT
                                    ![pk] = RestoredByAfter(pk, r.team, db[pk], data)]
       ELSE /\ response' = ErrorResponse(action, r, pk, 404)
            /\ events' = <<>>
            /\ UNCHANGED <<db, restoredBy>>
    /\ UNCHANGED now

\* Faulty variant: the stock destroy of the model view set.
DestroyRemovingRow(r, pk) ==
    /\ IF pk \in get_queryset("destroy", r.team, NoParams)
       THEN /\ db' = [i \in 1..(Len(db) - 1) |-> IF i < pk THEN db[i] ELSE db[i + 1]]
            /\ response' = Response("destroy", r, pk, NoParams, 204, <<>>)
       ELSE /\ response' = ErrorResponse("destroy", r, pk, 404)
            /\ UNCHANGED db
    /\ events' = <<>>
    /\ UNCHANGED <<now, restoredBy>>

\* DELETE on one row: ForbidDestroyModel refuses it before any lookup.
Destroy(r, pk) ==
    /\ response' = ErrorResponse("destroy", r, pk, 405)
    /\ events' = <<>>
    /\ UNCHANGED <<db, now, restoredBy>>

Next ==
    \/ \E r \in Requesters, params \in ListInputs : List(r, params)
    \/ \E r \in Requesters, data \in CreateInputs : Create(r, data)
    \/ \E r \in Requesters, pk \in Ids, data \in UpdateInputs : Update("update", r, pk, data)
    \/ \E r \in Requesters, pk \in Ids, data \in UpdateInputs : Update("partial_update", r, pk, data)
    \/ \E r \in Requesters, pk \in Ids : Destroy(r, pk)

Spec == Init /\ [][Next]_vars

(* ----------------------------- properties ------------------------------ *)

Range(s) == { s[i] : i \in DOMAIN s }

Updates == {"update", "partial_update"}

\* Visibility as the specification words it: the row belongs to the
\* requesting team, or is organization-scoped and belongs to a team of the
\* requesting team's organization.
VisibleTo(id, team) ==
    \/ db[id].team = team
    \/ db[id].scope = "organization"
         /\ OrganizationOf(db[id].team) = OrganizationOf(team)

WithParam(params, key, value) ==
    [k \in DOMAIN params \cup {key} |-> IF k = key THEN value ELSE params[k]]

WithAnyOf(space, key, values) ==
    space \cup { WithParam(params, key, v) : params \in space, v \in values }

\* Query strings over every subset of the recognized keys.
ListParamSpace ==
    WithAnyOf(
      WithAnyOf(
        WithAnyOf(
          WithAnyOf(
            WithAnyOf({NoParams}, "after", {1}),
            "before", {2}),
          "dashboardItemId", {"i1"}),
        "scope", {"project", "organization"}),
      "order", {"date_marker"})

\* C1: with no filter parameters, list() returns a non-deleted annotation
\* exactly when it belongs to the requesting team, or is organization-scoped
\* and belongs to the requester's organization.
C1_ListScoping ==
    /\ \A r \in Requesters : \A id \in DOMAIN db :
         ~db[id].deleted =>
            (id \in get_queryset("list", r.team, NoParams) <=> VisibleTo(id, r.team))
    /\ (response.action = "list" /\ response.status = 200 /\ response.data = NoParams) =>
         \A id \in DOMAIN db :
            ~db[id].deleted =>
               (id \in Range(response.results) <=> VisibleTo(id, response.team))

\* An unfiltered list by team X returned an annotation owned by its sibling Y.
C1_Witness ==
    /\ response.action = "list" /\ response.status = 200 /\ response.data = NoParams
    /\ response.team = "X"
    /\ \E id \in Range(response.results) : db[id].team = "Y" /\ db[id].scope = "organization"

\* C2: in every reachable state a soft-deleted annotation is absent from
\* list() for every requester and every combination of query parameters.
C2_DeletedNeverListed ==
    /\ \A r \in Requesters : \A params \in ListParamSpace :
         \A id \in get_queryset("list", r.team, params) : ~db[id].deleted
    /\ response.action = "list" =>
         \A id \in Range(response.results) : ~db[id].deleted

\* A list answered while a soft-deleted annotation of the requester's own
\* team was stored.
C2_Witness ==
    /\ response.action = "list" /\ response.status = 200
    /\ \E id \in DOMAIN db : db[id].deleted /\ db[id].team = response.team

\* The unfiltered list of a team holds the row.
ListedFor(id, team) ==
    id \in get_queryset("list", team, NoParams)

\* An update of a non-deleted row that supplies no deleted value leaves it
\* non-deleted.
UpdateWithoutDeletedKeepsIt ==
    (/\ response'.action \in Updates /\ response'.status = 200
     /\ "deleted" \notin DOMAIN response'.data
     /\ ~db[response'.pk].deleted)
        => ~db'[response'.pk].deleted

\* C3, as stated: once a team's update restored a soft-deleted annotation,
\* the annotation is in that team's list until it is soft-deleted again; and
\* an update without a deleted value leaves a non-deleted annotation so.
C3_Original ==
    [][ /\ \A id \in DOMAIN db' : \A r \in Requesters :
             restoredBy'[id] = r.team => ListedFor(id, r.team)'
        /\ UpdateWithoutDeletedKeepsIt ]_vars

\* C3, amended: once a team's update restored a soft-deleted annotation, the
\* annotation is in that team's list for as long as it is not soft-deleted
\* again and still carries that team (an update from a sibling team re-stamps
\* it); and an update without a deleted value leaves a non-deleted annotation so.
C3_RestoredIsListed ==
    [][ /\ \A id \in DOMAIN db' : \A r \in Requesters :
             (restoredBy'[id] = r.team /\ db'[id].team = r.team)
                => ListedFor(id, r.team)'
        /\ UpdateWithoutDeletedKeepsIt ]_vars

\* The restoring team lists the annotation it restored.
C3_Witness ==
    /\ response.action = "list" /\ response.status = 200 /\ response.data = NoParams
    /\ \E id \in Range(response.results) : restoredBy[id] = response.team

\* C4: destroy() always fails with the not-permitted status and changes no
\* record, and no operation removes a stored annotation.
C4_DestroyForbidden ==
    [][ /\ response'.action = "destroy" => (response'.status = 405 /\ db' = db)
        /\ Len(db') >= Len(db) ]_vars

\* A destroy of a soft-deleted annotation of another team was refused.
C4_Witness ==
    /\ response.action = "destroy" /\ response.status = 405
    /\ response.pk \in DOMAIN db
    /\ db[response.pk].deleted
    /\ db[response.pk].team # response.team

\* C5: create() ignores created_by, creation_type and insight_name of the
\* input and sets created_by to the caller, team to the request's team and
\* creation_type to its default; no later step changes created_by or
\* creation_type.
C5_ReadOnlyFields ==
    [][ /\ response'.action = "create" =>
             /\ db'[response'.pk].created_by = response'.user
             /\ db'[response'.pk].team = response'.team
             /\ db'[response'.pk].creation_type = DefaultAnnotation.creation_type
        /\ \A id \in DOMAIN db :
             /\ db'[id].created_by = db[id].created_by
             /\ db'[id].creation_type = db[id].creation_type ]_vars

\* A create whose input carried created_by, creation_type and insight_name
\* stored the caller as the author.
C5_Witness ==
    /\ response.action = "create" /\ response.status = 201
    /\ {"created_by", "creation_type", "insight_name"} \subseteq DOMAIN response.data
    /\ db[response.pk].created_by = response.user
    /\ response.data["created_by"] # response.user

\* C6: with after=T1 and before=T2, T1 < T2, list() returns exactly the
\* visible, non-deleted annotations with T1 < created_at < T2.
C6_StrictRange ==
    /\ \A r \in Requesters : \A t1, t2 \in FilterTimes :
         t1 < t2 =>
            get_queryset("list", r.team, [after |-> t1, before |-> t2])
              = { id \in DOMAIN db :
                    /\ VisibleTo(id, r.team) /\ ~db[id].deleted
                    /\ t1 < db[id].created_at /\ db[id].created_at < t2 }
    /\ (/\ response.action = "list" /\ response.status = 200
        /\ DOMAIN response.data = {"after", "before"}) =>
         Range(response.results)
           = { id \in DOMAIN db :
                 /\ VisibleTo(id, response.team) /\ ~db[id].deleted
                 /\ response.data["after"] < db[id].created_at
                 /\ db[id].created_at < response.data["before"] }

\* A list with after and before returned an annotation strictly inside.
C6_Witness ==
    /\ response.action = "list" /\ response.status = 200
    /\ DOMAIN response.data = {"after", "before"}
    /\ response.data["after"] < response.data["before"]
    /\ response.results # <<>>

\* C7: every annotation's organization is the organization of its team.
C7_OrganizationOfTeam ==
    \A id \in DOMAIN db : db[id].organization = OrganizationOf(db[id].team)

\* The imported annotation of team X now carries team Y.
C7_Witness ==
    \E id \in DOMAIN db : db[id].created_by = "none" /\ db[id].team = "Y"

\* A soft-deleted annotation visible to the requester is found by an update
\* of the given action, and deleted=false in the input restores it.
FoundWhenDeleted(action) ==
    (/\ response.action = action
     /\ response.pk \in DOMAIN db
     /\ VisibleTo(response.pk, response.team))
        => /\ db[response.pk].deleted => response.status = 200
           /\ ("deleted" \in DOMAIN response.data /\ ~response.data["deleted"])
                 => ~db[response.pk].deleted

\* C8, as stated: a full and a partial update both find a soft-deleted
\* annotation visible to the requester and can set deleted=false.
C8_Original ==
    FoundWhenDeleted("update") /\ FoundWhenDeleted("partial_update")

\* C8, amended: a partial update finds a soft-deleted annotation visible to
\* the requester and can set deleted=false; a full update never succeeds on
\* a soft-deleted annotation.
C8_PartialUpdateRestores ==
    [][ /\ FoundWhenDeleted("partial_update")'
        /\ (response'.action = "update" /\ response'.status = 200)
              => ~db[response'.pk].deleted ]_vars

\* A partial update restored a soft-deleted annotation.
C8_Witness ==
    /\ response.action = "partial_update" /\ response.status = 200
    /\ "deleted" \in DOMAIN response.data /\ ~response.data["deleted"]
    /\ restoredBy[response.pk] = response.team
    /\ ~db[response.pk].deleted

\* C9: after a successful update from a workspace context the annotation's
\* team is that context's team.
C9_TeamRestamped ==
    (response.action \in Updates /\ response.status = 200)
       => db[response.pk].team = response.team

\* Team Y updated an annotation that team X had restored, and now owns it.
C9_Witness ==
    /\ response.action \in Updates /\ response.status = 200
    /\ response.team = "Y"
    /\ restoredBy[response.pk] = "X"
    /\ db[response.pk].team = "Y"

\* The events of one save: the hook if and only if the save creates, then
\* the analytics event if and only if the author is set.
SaveEvents(instance, ev, created) ==
    LET hooks     == { i \in DOMAIN ev : ev[i].kind = "hook" }
        analytics == { i \in DOMAIN ev : ev[i].kind = "analytics" }
    IN  /\ Cardinality(hooks) = (IF created THEN 1 ELSE 0)
        /\ Cardinality(analytics) = (IF instance.created_by # "none" THEN 1 ELSE 0)
        /\ \A i \in hooks : ev[i].name = "annotation_created"
        /\ \A i \in analytics :
              ev[i].name = (IF created THEN "annotation created" ELSE "annotation updated")
        /\ \A i \in hooks : \A j \in analytics : i < j

\* C10: the annotation_created hook is raised on the creating save and on no
\* update save; a save reports the analytics event ('annotation created' or
\* 'annotation updated') if and only if created_by is set, after the hook.
C10_SaveEvents ==
    /\ (response.action = "create" /\ response.status = 201)
          => SaveEvents(db[response.pk], events, TRUE)
    /\ (response.action \in Updates /\ response.status = 200)
          => SaveEvents(db[response.pk], events, FALSE)
    /\ response.status \notin {200, 201} => events = <<>>
    /\ response.action = "list" => events = <<>>
    /\ \A id \in DOMAIN db : \A created \in BOOLEAN :
          SaveEvents(db[id], annotation_created(db[id], id, created), created)

\* An update save of an annotation without an author raised nothing.
C10_Witness ==
    /\ response.action \in Updates /\ response.status = 200
    /\ db[response.pk].created_by = "none"
    /\ events = <<>>

====
